---- MODULE Spec2Model ----
(***************************************************************************)
(* A model of apo_tools/spec_tools.py: the FITS reader readspec with its   *)
(* wrappers vac_spec and air_spec, the Spectrum container, and the pure    *)
(* functions air_conversion and velocity_shift.                            *)
(*                                                                         *)
(* Python's 0-based arrays are 1-based sequences here: element i of an     *)
(* array is element i + 1 of the sequence.  A Python frame or object is a  *)
(* function from the names that are bound to their values; a name that is  *)
(* not in the DOMAIN is unbound (reading it raises).                       *)
(***************************************************************************)
EXTENDS Integers, Sequences, FiniteSets, TLC

VARIABLES
    file,        \* readspec: the FITS resource named by filename
    extension,   \* readspec: the extension index asked for
    caller,      \* which entry point was called: readspec, vac_spec, air_spec
    pc,          \* position in readspec / its wrapper
    handle,      \* the handle fits.open returned: none, open, closed
    staleRead,   \* TRUE once the handle was read while not open
    locals,      \* readspec's local variables
    exc,         \* the exception being propagated, NoExc when none
    ret,         \* the pair readspec returned
    out,         \* the pair vac_spec / air_spec returned
    obj,         \* Spectrum: the object's attributes
    mret,        \* Spectrum: what the last method call returned
    mexc,        \* Spectrum: the exception the last method call raised
    last,        \* Spectrum: the last method call and its argument
    ncalls,      \* Spectrum: number of method calls made
    vin,         \* velocity_shift: the arguments
    vout,        \* velocity_shift: the value returned
    vpc          \* velocity_shift: called / returned

readVars == <<file, extension, caller, pc, handle, staleRead, locals, exc, ret, out>>
objVars == <<obj, mret, mexc, last, ncalls>>
velVars == <<vin, vout, vpc>>
vars == <<readVars, objVars, velVars>>

----------------------------------------------------------------------------
(* Bounds *)

\* largest value of the numeric header keywords CDELT1, CD1_1, CRPIX1, CRVAL1
MaxVal == 1
\* largest NAXIS1 (pixels of the flux array in a FITS extension)
MaxNaxis == 2
\* wavelengths of a Spectrum and of a new grid are drawn from 0..MaxWave
MaxWave == 4
\* method calls made on one Spectrum
MaxCalls == 2

----------------------------------------------------------------------------
(* Python values *)

NoExc == [type |-> "none", arg |-> "none"]
Exception(t, a) == [type |-> t, arg |-> a]

EmptyFrame == [n \in {} |-> 0]
Bind(f, name, value) ==
    [n \in (DOMAIN f) \cup {name} |-> IF n = name THEN value ELSE f[n]]

\* A numpy array is [dtype, vals, mask, air]: its elements vals, of numbers
\* (dtype "float") or of strings (dtype "str", vals are then their codes),
\* mask[i] TRUE where element i is masked, and air the number of times
\* air_conversion was applied to the elements.  A plain ndarray masks nothing.
ndarray(s) ==
    [dtype |-> "float", vals |-> s, mask |-> [i \in DOMAIN s |-> FALSE],
     air |-> 0]
StrArray(s) == [ndarray(s) EXCEPT !.dtype = "str"]

----------------------------------------------------------------------------
(* Pure functions *)

\* air_conversion acts on each element w alike: w / 10000, the refractive
\* index a + b1 / (c1 - 1 / w**2) + b2 / (c2 - 1 / w**2) + 1 of it, and
\* w / index * 10000.  The quotient is not an integer: the result is kept
\* as the same elements with one more conversion applied to them.
air_conversion(wave) == [wave EXCEPT !.air = @ + 1]

\* c = 2.99792458e5 km/s, in m/s; velocities are in m/s too
c == 299792458

RECURSIVE gcd(_, _)
gcd(a, b) == IF b = 0 THEN a ELSE gcd(b, a % b)
abs(a) == IF a < 0 THEN -a ELSE a

\* the exact quotient num / den (den > 0), in lowest terms; the number n is
\* the quotient [num |-> n, den |-> 1]
quotient(num, den) ==
    LET g == gcd(abs(num), den)
    IN  [num |-> num \div g, den |-> den \div g]

\* a slip: wavelength * (velocity / c), the 1 + left out
shiftedNoUnit(w, velocity) ==
    LET g == gcd(abs(velocity), c)
    IN  quotient(w * (velocity \div g), c \div g)

\* w * (1 + velocity / c) for one element w: 1 + velocity / c is the
\* fraction (c + velocity) / c in lowest terms
shifted(w, velocity) ==
    LET g == gcd(abs(c + velocity), c)
    IN  quotient(w * ((c + velocity) \div g), c \div g)

velocity_shift(wavelength, velocity) ==
    [wavelength EXCEPT
        !.vals = [i \in DOMAIN @ |-> shifted(wavelength.vals[i], velocity)]]

\* np.ma.masked_where(condition, a)
masked_where(condition, a) == [a EXCEPT !.mask = condition]

----------------------------------------------------------------------------
(* readspec(filename, extension), lines 29-64 *)

LinearTypes == {"LINEAR", "WAVELENGTH", "AWAV"}

\* raise inside the with block: the exception leaves through the with
\* statement, which closes the file
RaiseInWith(e) ==
    /\ exc' = e
    /\ pc' = "unwind"
    /\ UNCHANGED <<locals, handle, staleRead, ret>>

\* a read of the handle: file[extension]
ReadsHandle == staleRead' = (staleRead \/ handle # "open")

\* line 38: with fits.open(filename) as file
Open ==
    /\ pc = "open"
    /\ IF file.avail
       THEN /\ handle' = "open"
            /\ pc' = "data"
            /\ UNCHANGED exc
       ELSE /\ exc' = Exception("OSError", "filename")
            /\ pc' = "done"
            /\ UNCHANGED handle
    /\ UNCHANGED <<file, extension, caller, staleRead, locals, ret, out>>
    /\ UNCHANGED <<objVars, velVars>>

\* line 40: flux = file[extension].data
ReadData ==
    /\ pc = "data"
    /\ IF extension + 1 \in DOMAIN file.hdus
       THEN /\ locals' = Bind(locals, "flux",
                                 ndarray(file.hdus[extension + 1].data))
            /\ pc' = "header"
            /\ UNCHANGED <<exc, handle, ret>>
            /\ ReadsHandle
       ELSE /\ ReadsHandle
            /\ exc' = Exception("IndexError", "extension")
            /\ pc' = "unwind"
            /\ UNCHANGED <<locals, handle, ret>>
    /\ UNCHANGED <<file, extension, caller, out>>
    /\ UNCHANGED <<objVars, velVars>>

\* line 41: header = file[extension].header
ReadHeader ==
    /\ pc = "header"
    /\ locals' = Bind(locals, "header", file.hdus[extension + 1].header)
    /\ pc' = "ctype"
    /\ ReadsHandle
    /\ UNCHANGED <<file, extension, caller, handle, exc, ret, out>>
    /\ UNCHANGED <<objVars, velVars>>

\* name = header[key]: a KeyError when the header has no such keyword
Lookup(name, key, next) ==
    IF key \in DOMAIN locals.header
    THEN /\ locals' = Bind(locals, name, locals.header[key])
         /\ pc' = next
         /\ UNCHANGED <<exc, handle, staleRead, ret>>
    ELSE RaiseInWith(Exception("KeyError", key))

\* line 43: ctype = header['CTYPE1']
ReadCtype ==
    /\ pc = "ctype"
    /\ Lookup("ctype", "CTYPE1", "step")
    /\ UNCHANGED <<file, extension, caller, out>>
    /\ UNCHANGED <<objVars, velVars>>

\* a slip: the two ifs of lines 44-47 in the other order, so CDELT1 wins
StepBoundCdeltWins(header, frame) ==
    LET f1 == IF "CD1_1" \in DOMAIN header
              THEN Bind(frame, "cdelt", header["CD1_1"]) ELSE frame
    IN  IF "CDELT1" \in DOMAIN header
        THEN Bind(f1, "cdelt", header["CDELT1"]) ELSE f1

\* lines 44-47: cdelt from CDELT1 if present, then from CD1_1 if present
StepBound(header, frame) ==
    LET f1 == IF "CDELT1" \in DOMAIN header
              THEN Bind(frame, "cdelt", header["CDELT1"]) ELSE frame
    IN  IF "CD1_1" \in DOMAIN header
        THEN Bind(f1, "cdelt", header["CD1_1"]) ELSE f1

ReadStep ==
    /\ pc = "step"
    /\ locals' = StepBound(locals.header, locals)
    /\ pc' = "crpix"
    /\ UNCHANGED <<file, extension, caller, handle, staleRead, exc, ret, out>>
    /\ UNCHANGED <<objVars, velVars>>

\* line 48: crpix = header['CRPIX1']
ReadCrpix ==
    /\ pc = "crpix"
    /\ Lookup("crpix", "CRPIX1", "cinit")
    /\ UNCHANGED <<file, extension, caller, out>>
    /\ UNCHANGED <<objVars, velVars>>

\* line 49: cinit = header['CRVAL1']
ReadCinit ==
    /\ pc = "cinit"
    /\ Lookup("cinit", "CRVAL1", "naxis1")
    /\ UNCHANGED <<file, extension, caller, out>>
    /\ UNCHANGED <<objVars, velVars>>

\* line 50: naxis1 = header['NAXIS1']
ReadNaxis ==
    /\ pc = "naxis1"
    /\ Lookup("naxis1", "NAXIS1", "axis")
    /\ UNCHANGED <<file, extension, caller, out>>
    /\ UNCHANGED <<objVars, velVars>>

\* a slip: (np.arange(naxis1) - crpix), as line 58 has it
LinearAxisMinus(naxis1, crpix, cdelt, cinit) ==
    ndarray([i \in 1 .. naxis1 |-> ((i - 1) - crpix) * cdelt + cinit])

\* line 53: (np.arange(naxis1) + crpix) * cdelt + cinit
LinearAxis(naxis1, crpix, cdelt, cinit) ==
    ndarray([i \in 1 .. naxis1 |-> ((i - 1) + crpix) * cdelt + cinit])

\* lines 56-58: 10 ** ((np.arange(naxis1) - crpix) * new_cdelt + new_cinit)
\* with new_cinit = log10(cinit), new_cdelt = log10(cinit + cdelt) - new_cinit.
\* The logarithms are not integers: the element is kept as the term with
\* n = i - crpix, the multiplier of new_cdelt.
WaveAxis(naxis1, crpix, cdelt, cinit) ==
    ndarray([i \in 1 .. naxis1 |->
                [pow10 |-> "n * (log10(a) - log10(b)) + log10(b)",
                 n |-> (i - 1) - crpix, a |-> cinit + cdelt, b |-> cinit]])

\* line 62: 10 ** (np.arange(naxis1) * cdelt + cinit), kept as the term
\* with its exponent e
LogLinearAxis(naxis1, cdelt, cinit) ==
    ndarray([i \in 1 .. naxis1 |->
                [pow10 |-> "e", e |-> (i - 1) * cdelt + cinit]])

\* lines 52-62: three ifs on ctype; each branch reads cdelt
ComputeAxis ==
    /\ pc = "axis"
    /\ IF locals.ctype \in LinearTypes \cup {"WAVE", "LOG-LINEAR"}
       THEN IF "cdelt" \in DOMAIN locals
            THEN /\ locals' = Bind(locals, "wavelength",
                        IF locals.ctype \in LinearTypes
                        THEN LinearAxis(locals.naxis1, locals.crpix,
                                        locals.cdelt, locals.cinit)
                        ELSE IF locals.ctype = "WAVE"
                        THEN WaveAxis(locals.naxis1, locals.crpix,
                                      locals.cdelt, locals.cinit)
                        ELSE LogLinearAxis(locals.naxis1, locals.cdelt,
                                           locals.cinit))
                 /\ pc' = "exit"
                 /\ UNCHANGED <<exc, handle, staleRead, ret>>
            ELSE RaiseInWith(Exception("UnboundLocalError", "cdelt"))
       ELSE /\ pc' = "exit"
            /\ UNCHANGED <<locals, exc, handle, staleRead, ret>>
    /\ UNCHANGED <<file, extension, caller, out>>
    /\ UNCHANGED <<objVars, velVars>>

\* a slip: file = fits.open(filename) and a close at the end of the block,
\* without the with statement: an exception leaves the file open
WithExitNormalOnly ==
    /\ pc \in {"exit", "unwind"}
    /\ handle' = IF pc = "exit" THEN "closed" ELSE handle
    /\ pc' = IF pc = "exit" THEN "return" ELSE "done"
    /\ UNCHANGED <<file, extension, caller, staleRead, locals, exc, ret, out>>
    /\ UNCHANGED <<objVars, velVars>>

\* the end of the with block, reached normally ("exit") or by an exception
\* ("unwind"): the file is closed, and an exception goes on to the caller
WithExit ==
    /\ pc \in {"exit", "unwind"}
    /\ handle' = "closed"
    /\ pc' = IF pc = "exit" THEN "return" ELSE "done"
    /\ UNCHANGED <<file, extension, caller, staleRead, locals, exc, ret, out>>
    /\ UNCHANGED <<objVars, velVars>>

\* line 64: return wavelength, flux
Return ==
    /\ pc = "return"
    /\ IF "wavelength" \in DOMAIN locals
       THEN /\ ret' = [wavelength |-> locals.wavelength, flux |-> locals.flux]
            /\ pc' = IF caller = "readspec" THEN "done" ELSE "wrap"
            /\ UNCHANGED exc
       ELSE /\ exc' = Exception("UnboundLocalError", "wavelength")
            /\ pc' = "done"
            /\ UNCHANGED ret
    /\ UNCHANGED <<file, extension, caller, handle, staleRead, locals, out>>
    /\ UNCHANGED <<objVars, velVars>>

\* a slip: masked_where(data, data), which masks where data is not 0
IsNonZero(data) == [i \in DOMAIN data.vals |-> data.vals[i] # 0]

\* data == 0, element by element
IsZero(data) == [i \in DOMAIN data.vals |-> data.vals[i] = 0]

\* lines 73-77: wave, data = readspec(...); mask data where it is 0
vac_spec ==
    /\ pc = "wrap"
    /\ caller = "vac_spec"
    /\ out' = [wave |-> ret.wavelength,
               data_m |-> masked_where(IsZero(ret.flux), ret.flux)]
    /\ pc' = "done"
    /\ UNCHANGED <<file, extension, caller, handle, staleRead, locals, exc, ret>>
    /\ UNCHANGED <<objVars, velVars>>

\* lines 87-91: as vac_spec, with the wavelengths converted to air
air_spec ==
    /\ pc = "wrap"
    /\ caller = "air_spec"
    /\ out' = [wave |-> air_conversion(ret.wavelength),
               data_m |-> masked_where(IsZero(ret.flux), ret.flux)]
    /\ pc' = "done"
    /\ UNCHANGED <<file, extension, caller, handle, staleRead, locals, exc, ret>>
    /\ UNCHANGED <<objVars, velVars>>

----------------------------------------------------------------------------
(* class Spectrum, lines 8-26 *)

\* A flux value is [v, ip]: the number v when ip is FALSE, and the value
\* at wavelength v of the fitted spline, strictly between two of its data
\* points, when ip is TRUE (that value is not an integer).
Number(n) == [v |-> n, ip |-> FALSE]

None == <<>>

\* the degree of the spline, k=3
k == 3

StrictlyIncreasing(s) == \A i \in 1 .. (Len(s) - 1) : s[i] < s[i + 1]

\* lines 22-24: InterpolatedUnivariateSpline(x, y, k=3, ext='zeros') accepts
\* numeric x, y of the same length, more than k points, x strictly increasing
CanFit(x, y) ==
    /\ x.dtype = "float"
    /\ y.dtype = "float"
    /\ Len(x.vals) = Len(y.vals)
    /\ Len(x.vals) > k
    /\ StrictlyIncreasing(x.vals)

\* ip(new_wavelength)[i], ext='zeros': 0 outside the data's range, the
\* datum at a data point, the spline's value between two data points
SplineAt(x, y, p) ==
    IF p < x[1] \/ p > x[Len(x)] THEN Number(0)
    ELSE IF \E j \in DOMAIN x : x[j] = p
         THEN y[CHOOSE j \in DOMAIN x : x[j] = p]
         ELSE [v |-> p, ip |-> TRUE]

SplineEval(x, y, new) == [i \in DOMAIN new |-> SplineAt(x, y, new[i])]

\* line 9-13: __init__
SpectrumInit(wavelength, flux, variance) ==
    LET o == Bind(Bind(EmptyFrame, "wavelength", wavelength), "flux", flux)
    IN  IF variance # None THEN Bind(o, "variance", variance)
        ELSE o

Called(method, velocity, grid) ==
    /\ ncalls < MaxCalls
    /\ ncalls' = ncalls + 1
    /\ last' = [method |-> method, velocity |-> velocity, grid |-> grid]

\* a slip: self.wavelength = air_conversion(self.wavelength)
AfterVacToAirInPlace(o) ==
    [o EXCEPT !.wavelength = air_conversion(o.wavelength)]

\* what vac_to_air leaves in the object, lines 15-16
AfterVacToAir(o) ==
    Bind(o, "wavelength_air", air_conversion(o.wavelength))

vac_to_air ==
    /\ Called("vac_to_air", 0, ndarray(<<>>))
    /\ IF obj.wavelength.dtype = "float"
       THEN /\ obj' = AfterVacToAir(obj)
            /\ mexc' = NoExc
       ELSE /\ mexc' = Exception("TypeError", "wavelength")
            /\ UNCHANGED obj
    /\ mret' = None
    /\ UNCHANGED <<readVars, velVars>>

\* lines 18-19
vel_shift(velocity) ==
    /\ Called("vel_shift", velocity, ndarray(<<>>))
    /\ IF obj.wavelength.dtype = "float"
       THEN /\ mret' = velocity_shift(obj.wavelength, velocity)
            /\ mexc' = NoExc
       ELSE /\ mexc' = Exception("TypeError", "wavelength")
            /\ mret' = None
    /\ UNCHANGED obj
    /\ UNCHANGED <<readVars, velVars>>

\* what interpolate_spectrum leaves in the object when ip(new_wavelength)
\* raises at line 26: line 25 has assigned already
AfterFailedEval(o, new_wavelength) ==
    [o EXCEPT !.wavelength = new_wavelength]

\* what interpolate_spectrum leaves in the object when it returns
AfterInterpolate(o, new_wavelength) ==
    [o EXCEPT !.wavelength = new_wavelength,
              !.flux = ndarray(SplineEval(o.wavelength.vals, o.flux.vals,
                                          new_wavelength.vals))]

\* lines 21-26
interpolate_spectrum(new_wavelength) ==
    /\ Called("interpolate_spectrum", 0, new_wavelength)
    /\ IF ~CanFit(obj.wavelength, obj.flux)
       THEN /\ mexc' = Exception("ValueError", "spline")
            /\ UNCHANGED obj
       ELSE IF new_wavelength.dtype # "float"
       THEN /\ mexc' = Exception("TypeError", "new_wavelength")
            /\ obj' = AfterFailedEval(obj, new_wavelength)
       ELSE /\ mexc' = NoExc
            /\ obj' = AfterInterpolate(obj, new_wavelength)
    /\ mret' = None
    /\ UNCHANGED <<readVars, velVars>>

----------------------------------------------------------------------------
(* Inputs *)

CTypes == LinearTypes \cup {"WAVE", "LOG-LINEAR", "FOO"}
HdrVals == 0 .. MaxVal
FluxVals == {0, 1}
\* a keyword is absent ({}) or has one value
Opt(S) == {{}} \cup {{x} : x \in S}

RECURSIVE SeqsOfLen(_, _)
SeqsOfLen(S, n) ==
    IF n = 0 THEN {<<>>}
    ELSE {Append(s, x) : s \in SeqsOfLen(S, n - 1), x \in S}
SeqsUpTo(S, n) == UNION {SeqsOfLen(S, m) : m \in 0 .. n}

RECURSIVE Sorted(_)
Sorted(S) ==
    IF S = {} THEN <<>>
    ELSE LET m == CHOOSE x \in S : \A y \in S : x <= y
         IN  <<m>> \o Sorted(S \ {m})

\* the header with the keywords that are present
Header(ct, cdelt1, cd11, crpix1, crval1, naxis1) ==
    LET given == [CTYPE1 |-> ct, CDELT1 |-> cdelt1, CD1_1 |-> cd11,
                  CRPIX1 |-> crpix1, CRVAL1 |-> crval1, NAXIS1 |-> naxis1]
    IN  [key \in {x \in DOMAIN given : given[x] # {}} |->
            CHOOSE x \in given[key] : TRUE]

Velocities == {0, c, -c, c \div 2}
Waves == 0 .. MaxWave
\* the grids a Spectrum is constructed with: strictly increasing
Grids == {ndarray(Sorted(S)) : S \in SUBSET Waves}
\* the flux it is constructed with: all 1, or 1 and 0 in turn
FluxOn(n) == {[i \in 1 .. n |-> Number(1)], [i \in 1 .. n |-> Number(i % 2)]}
\* the grids interpolate_spectrum is called with: the empty grid, every
\* a, a + 1, ..., b, the descending pairs a + 1, a, and an array of strings
Ramp(a, b) == [i \in 1 .. (b - a + 1) |-> a + i - 1]
NewGrids ==
    {ndarray(Ramp(a, b)) : a \in Waves, b \in (-1) .. MaxWave}
        \cup {ndarray(<<a + 1, a>>) : a \in 0 .. (MaxWave - 1)}
        \cup {StrArray(<<0, 1>>)}

----------------------------------------------------------------------------
(* Specifications *)

ReadIdle ==
    /\ file = [avail |-> FALSE, hdus |-> <<>>]
    /\ extension = 0
    /\ caller = "none"
    /\ pc = "idle"
    /\ handle = "none"
    /\ staleRead = FALSE
    /\ locals = EmptyFrame
    /\ exc = NoExc
    /\ ret = [wavelength |-> ndarray(<<>>), flux |-> ndarray(<<>>)]
    /\ out = [wave |-> ndarray(<<>>), data_m |-> ndarray(<<>>)]

ObjIdle ==
    /\ obj = EmptyFrame
    /\ mret = None
    /\ mexc = NoExc
    /\ last = [method |-> "none", velocity |-> 0, grid |-> ndarray(<<>>)]
    /\ ncalls = 0

VelIdle ==
    /\ vin = [wavelength |-> ndarray(<<>>), velocity |-> 0]
    /\ vout = ndarray(<<>>)
    /\ vpc = "idle"

\* a call of readspec, vac_spec or air_spec on a FITS resource: one that
\* cannot be opened, or one with a single extension (index 0) whose NAXIS1,
\* when present, is the length of its data
Init ==
    /\ \/ file = [avail |-> FALSE, hdus |-> <<>>]
       \/ \E ct \in Opt(CTypes), cdelt1 \in Opt(HdrVals), cd11 \in Opt(HdrVals),
             crpix1 \in Opt(HdrVals), crval1 \in Opt(HdrVals),
             data \in SeqsUpTo(FluxVals, MaxNaxis) :
             \E naxis1 \in {{}, {Len(data)}} :
                file = [avail |-> TRUE,
                        hdus |-> <<[header |-> Header(ct, cdelt1, cd11, crpix1,
                                                      crval1, naxis1),
                                    data |-> data]>>]
    /\ extension \in {0, 1}
    /\ caller \in {"readspec", "vac_spec", "air_spec"}
    /\ pc = "open"
    /\ handle = "none"
    /\ staleRead = FALSE
    /\ locals = EmptyFrame
    /\ exc = NoExc
    /\ ret = [wavelength |-> ndarray(<<>>), flux |-> ndarray(<<>>)]
    /\ out = [wave |-> ndarray(<<>>), data_m |-> ndarray(<<>>)]
    /\ ObjIdle
    /\ VelIdle

Next ==
    \/ Open
    \/ ReadData
    \/ ReadHeader
    \/ ReadCtype
    \/ ReadStep
    \/ ReadCrpix
    \/ ReadCinit
    \/ ReadNaxis
    \/ ComputeAxis
    \/ WithExit
    \/ Return
    \/ vac_spec
    \/ air_spec

Spec == Init /\ [][Next]_vars

\* a Spectrum constructed with wavelength, flux and variance (or None) of
\* equal length, and method calls on it
InitSpectrum ==
    /\ \E wavelength \in Grids :
       \E flux \in FluxOn(Len(wavelength.vals)) :
       \E variance \in {None, ndarray([i \in DOMAIN flux |-> Number(1)])} :
          obj = SpectrumInit(wavelength, ndarray(flux), variance)
    /\ mret = None
    /\ mexc = NoExc
    /\ last = [method |-> "none", velocity |-> 0, grid |-> ndarray(<<>>)]
    /\ ncalls = 0
    /\ ReadIdle
    /\ VelIdle

NextSpectrum ==
    \/ vac_to_air
    \/ \E velocity \in Velocities : vel_shift(velocity)
    \/ \E new_wavelength \in NewGrids : interpolate_spectrum(new_wavelength)

SpecSpectrum == InitSpectrum /\ [][NextSpectrum]_vars

\* velocity_shift applied to an array of wavelengths
InitShift ==
    /\ \E wavelength \in SeqsUpTo((-1) .. MaxWave, 2), velocity \in Velocities :
          vin = [wavelength |-> ndarray(wavelength), velocity |-> velocity]
    /\ vout = ndarray(<<>>)
    /\ vpc = "called"
    /\ ReadIdle
    /\ ObjIdle

ApplyShift ==
    /\ vpc = "called"
    /\ vout' = velocity_shift(vin.wavelength, vin.velocity)
    /\ vpc' = "returned"
    /\ UNCHANGED <<vin, readVars, objVars>>

NextShift == ApplyShift

SpecShift == InitShift /\ [][NextShift]_vars

----------------------------------------------------------------------------
(* Claims about readspec, vac_spec and air_spec, under Spec *)

\* the extension was read: the resource opened and has the extension
Reached == file.avail /\ extension + 1 \in DOMAIN file.hdus
Hdr == file.hdus[extension + 1].header
Data == file.hdus[extension + 1].data

SupportedTypes == {"LINEAR", "WAVELENGTH", "AWAV", "WAVE", "LOG-LINEAR"}
StepKeys == {"CDELT1", "CD1_1"}
\* the required keywords a header lacks; the step is missing when both
\* CDELT1 and CD1_1 are
MissingKeys(h) ==
    ({"CTYPE1", "CRPIX1", "CRVAL1", "NAXIS1"} \ DOMAIN h)
        \cup (IF StepKeys \cap DOMAIN h = {} THEN StepKeys ELSE {})
\* the step of a header that has one: CD1_1 if present, else CDELT1
StepOf(h) == IF "CD1_1" \in DOMAIN h THEN h["CD1_1"] ELSE h["CDELT1"]

ReadspecReturned == pc \in {"wrap", "done"} /\ exc = NoExc
ReadspecRaised == pc = "done" /\ exc # NoExc
ReadspecEnded == ReadspecReturned \/ ReadspecRaised

\* the error outcome of the specification's taxonomy that a Python
\* exception is: a failed header lookup is HeaderFieldMissing, a failed
\* open is ResourceUnavailable; Python's other exceptions are none of them
ErrorOutcome ==
    CASE exc.type = "KeyError" -> "HeaderFieldMissing"
      [] exc.type = "OSError" -> "ResourceUnavailable"
      [] OTHER -> exc.type

\* C1: for a header with every required key whose CTYPE1 is none of the five
\* supported types, readspec ends in the error UnsupportedAxisType and
\* returns no pair.
C1_UnsupportedAxisType ==
    (ReadspecEnded /\ Reached /\ MissingKeys(Hdr) = {}
        /\ Hdr["CTYPE1"] \notin SupportedTypes)
    => (ReadspecRaised /\ ErrorOutcome = "UnsupportedAxisType")

\* C3: once readspec has returned or raised, the handle it opened is closed
\* (it holds none only when the open failed), and the handle is never read
\* while it is not open.
C3_HandleReleased ==
    /\ ReadspecEnded => handle = (IF file.avail THEN "closed" ELSE "none")
    /\ pc = "return" => handle = "closed"
    /\ ~staleRead

C3_Witness ==
    /\ ReadspecRaised
    /\ exc.type \in {"KeyError", "IndexError", "UnboundLocalError"}
    /\ handle = "closed"

\* C4: on a header lacking a required key readspec fails with
\* HeaderFieldMissing for a key that is lacking, whatever CTYPE1 is.
C4_HeaderFieldMissing ==
    (ReadspecEnded /\ Reached /\ MissingKeys(Hdr) # {})
    => (ReadspecRaised /\ ErrorOutcome = "HeaderFieldMissing"
        /\ exc.arg \in MissingKeys(Hdr))

\* C5: for CTYPE1 in LINEAR, WAVELENGTH, AWAV the wavelength readspec returns
\* has length NAXIS1 and wavelength[i] = (i + CRPIX1) * step + CRVAL1 for
\* every i in 0..NAXIS1-1; CRPIX1=0, CRVAL1=4000, step=1, NAXIS1=5 gives
\* 4000, 4001, 4002, 4003, 4004.
C5_LinearAxis ==
    /\ (ReadspecReturned /\ Hdr["CTYPE1"] \in LinearTypes)
       => /\ Len(ret.wavelength.vals) = Hdr["NAXIS1"]
          /\ \A i \in 0 .. (Hdr["NAXIS1"] - 1) :
                ret.wavelength.vals[i + 1]
                    = (i + Hdr["CRPIX1"]) * StepOf(Hdr) + Hdr["CRVAL1"]
    /\ LinearAxis(5, 0, 1, 4000).vals = <<4000, 4001, 4002, 4003, 4004>>

C5_Witness ==
    /\ ReadspecReturned
    /\ Hdr["CTYPE1"] = "AWAV"
    /\ Hdr["NAXIS1"] = 2
    /\ Hdr["CRPIX1"] = 1
    /\ StepOf(Hdr) = 1
    /\ ret.wavelength.vals = <<1 + Hdr["CRVAL1"], 2 + Hdr["CRVAL1"]>>

\* the exponent terms of the two logarithmic branches, from the header
WaveTerm(h, i) ==
    [pow10 |-> "n * (log10(a) - log10(b)) + log10(b)",
     n |-> i - h["CRPIX1"], a |-> h["CRVAL1"] + StepOf(h), b |-> h["CRVAL1"]]
LogLinearTerm(h, i) == [pow10 |-> "e", e |-> i * StepOf(h) + h["CRVAL1"]]

\* C6: the step readspec uses, in every CTYPE1 branch, is CD1_1 whenever the
\* header has CD1_1 (also when CDELT1 is there with another value), and
\* CDELT1 only when CD1_1 is absent.
C6_StepPrecedence ==
    /\ "cdelt" \in DOMAIN locals
       => /\ StepKeys \cap DOMAIN Hdr # {}
          /\ "CD1_1" \in DOMAIN Hdr => locals.cdelt = Hdr["CD1_1"]
          /\ "CD1_1" \notin DOMAIN Hdr => locals.cdelt = Hdr["CDELT1"]
    /\ ReadspecReturned
       => \A i \in 0 .. (Hdr["NAXIS1"] - 1) :
             ret.wavelength.vals[i + 1] =
                IF Hdr["CTYPE1"] \in LinearTypes
                THEN (i + Hdr["CRPIX1"]) * StepOf(Hdr) + Hdr["CRVAL1"]
                ELSE IF Hdr["CTYPE1"] = "WAVE" THEN WaveTerm(Hdr, i)
                ELSE LogLinearTerm(Hdr, i)

C6_Witness ==
    /\ ReadspecReturned
    /\ StepKeys \subseteq DOMAIN Hdr
    /\ Hdr["CD1_1"] # Hdr["CDELT1"]
    /\ Hdr["CTYPE1"] = "LOG-LINEAR"
    /\ Hdr["NAXIS1"] = 2
    /\ locals.cdelt = Hdr["CD1_1"]

\* C7: vac_spec and air_spec return the flux of the file, of the same length
\* and values, with pixel i masked if and only if flux[i] is 0 (the mask is
\* that of the file's data, so the same from both), and a wavelength axis of
\* length NAXIS1 with no entry masked.
C7_ZeroFluxMasked ==
    (pc = "done" /\ exc = NoExc /\ caller \in {"vac_spec", "air_spec"})
    => /\ out.data_m.vals = Data
       /\ DOMAIN out.data_m.mask = DOMAIN Data
       /\ \A i \in DOMAIN Data : out.data_m.mask[i] <=> (Data[i] = 0)
       /\ Len(out.wave.vals) = Hdr["NAXIS1"]
       /\ DOMAIN out.wave.mask = DOMAIN out.wave.vals
       /\ \A i \in DOMAIN out.wave.mask : ~out.wave.mask[i]
       /\ out.wave.air = (IF caller = "air_spec" THEN 1 ELSE 0)

C7_Witness ==
    /\ pc = "done"
    /\ exc = NoExc
    /\ caller = "air_spec"
    /\ Data = <<0, 1>>
    /\ out.data_m.mask = <<TRUE, FALSE>>

----------------------------------------------------------------------------
(* Claims about Spectrum, under SpecSpectrum *)

\* C2: after any calls of vac_to_air, vel_shift and interpolate_spectrum,
\* len(wavelength) = len(flux) and, when variance is present,
\* len(variance) = len(wavelength).
C2_EqualLengths ==
    /\ Len(obj.wavelength.vals) = Len(obj.flux.vals)
    /\ "variance" \in DOMAIN obj
       => Len(obj.variance.vals) = Len(obj.wavelength.vals)

\* attribute a is the same in the object before and after the step
Kept(a) == a \in DOMAIN obj' /\ obj'[a] = obj[a]

\* C8: vac_to_air leaves wavelength, flux and variance as they were and only
\* adds or overwrites wavelength_air, with air_conversion(wavelength);
\* vel_shift changes no field and returns velocity_shift(wavelength, velocity).
C8_FieldsUntouched ==
    [][/\ last'.method = "vac_to_air"
          => /\ \A a \in DOMAIN obj \ {"wavelength_air"} : Kept(a)
             /\ DOMAIN obj' \subseteq DOMAIN obj \cup {"wavelength_air"}
             /\ mexc' = NoExc
                => /\ "wavelength_air" \in DOMAIN obj'
                   /\ obj'.wavelength_air = [obj.wavelength EXCEPT !.air = 1]
       /\ last'.method = "vel_shift"
          => /\ \A a \in DOMAIN obj : Kept(a)
             /\ DOMAIN obj' = DOMAIN obj
             /\ mexc' = NoExc
                => mret' = velocity_shift(obj.wavelength, last'.velocity)
      ]_vars

C8_Witness ==
    /\ ncalls = 2
    /\ last.method = "vac_to_air"
    /\ mexc = NoExc
    /\ "variance" \in DOMAIN obj
    /\ obj.wavelength.vals = <<0, 1, 2>>
    /\ obj.wavelength_air = [obj.wavelength EXCEPT !.air = 1]
    /\ mret = None

\* C10: when interpolate_spectrum fails, in the construction of the spline
\* or in its evaluation on new_wavelength, wavelength and flux are both as
\* they were before the call.
C10_AllOrNothing ==
    [][(last'.method = "interpolate_spectrum" /\ mexc' # NoExc)
        => (Kept("wavelength") /\ Kept("flux"))]_vars

----------------------------------------------------------------------------
(* Claims about velocity_shift, under SpecShift *)

Rational(n) == [num |-> n, den |-> 1]

\* C9: velocity_shift(w, 0) returns w unchanged for every w, and
\* velocity_shift(w, c) returns 2 * w; velocity_shift(5000, c) is 10000.
C9_ZeroShiftIdentity ==
    /\ vpc = "returned"
       => /\ DOMAIN vout.vals = DOMAIN vin.wavelength.vals
          /\ vin.velocity = 0
             => vout = [vin.wavelength EXCEPT
                           !.vals = [i \in DOMAIN @ |-> Rational(@[i])]]
          /\ vin.velocity = c
             => \A i \in DOMAIN vout.vals :
                   vout.vals[i] = Rational(2 * vin.wavelength.vals[i])
    /\ shifted(5000, c) = Rational(10000)
    /\ shifted(5000, 0) = Rational(5000)

C9_Witness ==
    /\ vpc = "returned"
    /\ vin.velocity = 0
    /\ vin.wavelength.vals = <<MaxWave, -1>>
    /\ vout.vals = <<Rational(MaxWave), Rational(-1)>>

====
